---- MODULE Spec2Model ----
(***************************************************************************)
(* Model of src/js/svg-to-inline.js (SVGToInline).                         *)
(*                                                                         *)
(* The host document is a body with an ordered child list, the document's  *)
(* stylesheet list (document.styleSheets) and the class lists of its       *)
(* elements.  convertSVGtoInline(svgSource) issues a fetch; the fetch is   *)
(* either rejected or resolved; the first then-callback asks for the text, *)
(* and the second (parse, optimizeInlineSVG, replaceChild,                 *)
(* processFeaturedMerchantsImages) runs as one synchronous step, to its    *)
(* end or to the first exception.                                          *)
(*                                                                         *)
(* Strings that the code takes apart or concatenates (selectors, class     *)
(* names, the uid, attribute values) are sequences of one-character        *)
(* strings.  JavaScript values that may be undefined are tagged records.   *)
(***************************************************************************)
EXTENDS Integers, Sequences, FiniteSets, TLC

\* ------------------------------------------------------------------ bounds

\* number of calls of convertSVGtoInline in one behaviour
MaxConv == 2
\* number of times the millisecond clock advances
MaxTicks == 1
\* Date.now() at the start of the behaviour
StartTime == 9

\* ------------------------------------------------------- JavaScript values

undefined == [t |-> "undefined"]
Str(s) == [t |-> "string", v |-> s]

\* typeof x !== 'undefined'
IsDefined(x) == x.t # "undefined"

\* JavaScript truthiness of a string-or-undefined value
Truthy(x) == x.t = "string" /\ x.v # <<>>

\* a || b
Or(a, b) == IF Truthy(a) THEN a ELSE b

Digits == <<"0", "1", "2", "3", "4", "5", "6", "7", "8", "9">>

IsDigit(ch) == \E i \in 1..Len(Digits) : Digits[i] = ch

\* String(n) for a natural number n
RECURSIVE NumberToString(_)
NumberToString(n) ==
    IF n < 10 THEN <<Digits[n + 1]>>
    ELSE NumberToString(n \div 10) \o <<Digits[(n % 10) + 1]>>

\* s.replace(/^[0-9]+/, '')
RECURSIVE StripLeadingDigits(_)
StripLeadingDigits(s) ==
    IF s # <<>> /\ IsDigit(Head(s)) THEN StripLeadingDigits(Tail(s)) ELSE s

\* s.substring(1)
Substring1(s) == IF s = <<>> THEN <<>> ELSE Tail(s)

\* array.join(sep) for an array of strings
RECURSIVE Join(_, _)
Join(arr, sep) ==
    IF arr = <<>> THEN <<>>
    ELSE IF Len(arr) = 1 THEN arr[1]
    ELSE arr[1] \o sep \o Join(Tail(arr), sep)

\* --------------------------------------------------------------- DOM pieces

InSeq(x, s) == \E i \in 1..Len(s) : s[i] = x

\* element.getAttribute(name) used as a condition: null and '' are falsy
AttrTruthy(attrs, name) == name \in DOMAIN attrs /\ attrs[name] # <<>>

\* element.setAttribute(name, value)
SetAttribute(attrs, name, value) ==
    [n \in DOMAIN attrs \cup {name} |-> IF n = name THEN value ELSE attrs[n]]

\* element.removeAttribute(name)
RemoveAttribute(attrs, name) == [n \in DOMAIN attrs \ {name} |-> attrs[n]]

\* element.id: the id attribute, '' when the element has none
IdProperty(attrs) == IF "id" \in DOMAIN attrs THEN Str(attrs["id"]) ELSE Str(<<>>)

\* element.className of an element: always an object or a string, never
\* undefined; only its definedness is read
ClassNameProperty(classList) == Str(Join(classList, <<" ">>))

\* classList.add(token): an ordered set
ClassListAdd(classList, token) ==
    IF InSeq(token, classList) THEN classList ELSE Append(classList, token)

\* ASCII whitespace, which separates the tokens of a class attribute
Whitespace == {" ", "\t", "\n", "\f", "\r"}

HasWhitespace(s) == \E i \in 1..Len(s) : s[i] \in Whitespace

\* the tokens of a string split on ASCII whitespace, in order; cur is the
\* token being read
RECURSIVE SplitFrom(_, _)
SplitFrom(s, cur) ==
    IF s = <<>> THEN (IF cur = <<>> THEN <<>> ELSE <<cur>>)
    ELSE IF Head(s) \in Whitespace
         THEN (IF cur = <<>> THEN <<>> ELSE <<cur>>) \o SplitFrom(Tail(s), <<>>)
         ELSE SplitFrom(Tail(s), Append(cur, Head(s)))

SplitOnWhitespace(s) == SplitFrom(s, <<>>)

\* classList.replace(old, new).  An empty token throws SyntaxError and a
\* token with whitespace InvalidCharacterError, before anything is changed;
\* otherwise no change without old, else the first of old/new becomes new
\* and every other occurrence goes.  threw is "" when nothing was thrown.
FirstOf(classList, a, b) ==
    CHOOSE i \in 1..Len(classList) :
        /\ classList[i] \in {a, b}
        /\ \A k \in 1..(i - 1) : classList[k] \notin {a, b}

RECURSIVE ReplaceFrom(_, _, _, _, _)
ReplaceFrom(classList, old, new, first, i) ==
    IF i > Len(classList) THEN <<>>
    ELSE IF i = first THEN <<new>> \o ReplaceFrom(classList, old, new, first, i + 1)
    ELSE IF classList[i] \in {old, new} THEN ReplaceFrom(classList, old, new, first, i + 1)
    ELSE <<classList[i]>> \o ReplaceFrom(classList, old, new, first, i + 1)

\* variant: the new class is added and the old one stays
ClassListReplaceKeepsOld(classList, old, new) ==
    IF old = <<>> \/ new = <<>>
    THEN [threw |-> "SyntaxError", classList |-> classList]
    ELSE IF HasWhitespace(old) \/ HasWhitespace(new)
    THEN [threw |-> "InvalidCharacterError", classList |-> classList]
    ELSE IF ~InSeq(old, classList) THEN [threw |-> "", classList |-> classList]
    ELSE [threw |-> "", classList |-> ClassListAdd(classList, new)]

ClassListReplace(classList, old, new) ==
    IF old = <<>> \/ new = <<>>
    THEN [threw |-> "SyntaxError", classList |-> classList]
    ELSE IF HasWhitespace(old) \/ HasWhitespace(new)
    THEN [threw |-> "InvalidCharacterError", classList |-> classList]
    ELSE IF ~InSeq(old, classList) THEN [threw |-> "", classList |-> classList]
    ELSE [threw |-> "",
          classList |-> ReplaceFrom(classList, old, new, FirstOf(classList, old, new), 1)]

\* ------------------------------------------------------------ class names

ReplacedSvg == <<"r", "e", "p", "l", "a", "c", "e", "d", "-", "s", "v", "g">>
ImgFluid == <<"i", "m", "g", "-", "f", "l", "u", "i", "d">>
UidStem == <<"u", "i", "d", "-">>

\* --------------------------------------------------------------- node refs

BodyNode == <<"body", 0>>
HeadNode == <<"head", 0>>
Img(n) == <<"img", n>>
Div(n) == <<"div", n>>
Svg(c) == <<"svg", c>>
Defs(c) == <<"defs", c>>

\* ------------------------------------------------ the page and the network

\* The placeholders of the page: id and className are undefined when the
\* attribute is missing; dataset.svgSrc and src are the two URL channels.
Placeholders ==
    (Img(1) :> [id |-> Str(<<"l", "o", "g", "o">>), className |-> Str(<<"x">>),
                svgSrc |-> Str(<<"a", ".", "s", "v", "g">>), src |-> Str(<<>>)])
 @@ (Img(2) :> [id |-> undefined, className |-> undefined,
                svgSrc |-> undefined, src |-> Str(<<"b", ".", "s", "v", "g">>)])
 @@ (Img(3) :> [id |-> Str(<<>>), className |-> undefined,
                svgSrc |-> Str(<<>>), src |-> Str(<<>>)])

\* A rule of a stylesheet.  Only a style rule has a selectorText; for any
\* other rule (type "font-face", "media", ...) it is undefined, and the
\* selectorText field is not read.
Rule(sel, decls) == [type |-> "style", selectorText |-> sel, style |-> decls]
AtRule(type) == [type |-> type, selectorText |-> <<>>, style |-> <<>>]
Decl(p, v) == [property |-> p, value |-> v]

\* The rectangles getBBox() returns: the bounds of what a graphic draws.
BBoxes == <<
    [x |-> 0, y |-> 0, width |-> 50, height |-> 100],
    [x |-> 1, y |-> 2, width |-> 3, height |-> 4]
>>

\* The texts a fetch can resolve with.  root = FALSE: no svg element in the
\* parsed document (an error page, a parser error).  xmlns = FALSE: the svg
\* element is not in the SVG namespace, a plain Element without getBBox and
\* style.  sheets are the style elements of the graphic, each with the node
\* that is its parent ("svg": the root itself, "defs": a defs child); elems
\* are the class lists of the elements inside the root; box is the rectangle
\* of BBoxes that the shapes of the graphic fill.
Markups == <<
    [root |-> FALSE, xmlns |-> FALSE, attrs |-> <<>>, classList |-> <<>>,
     sheets |-> <<>>, elems |-> <<>>, box |-> 1],
    [root |-> TRUE, xmlns |-> TRUE,
     attrs |-> ("height" :> <<"1", "0", "0">>) @@ ("width" :> <<"5", "0">>)
               @@ ("xmlns:a" :> <<"h">>),
     classList |-> <<>>,
     sheets |-> << [parent |-> "svg",
                    cssRules |-> << Rule(<<".", "a">>, <<Decl("fill", "red"), Decl("stroke", "blue")>>),
                                    Rule(<<".", "b">>, <<Decl("fill", "none")>>),
                                    Rule(<<".", "c">>, <<Decl("opacity", "1")>>) >>] >>,
     elems |-> << <<<<"a">>>>, <<<<"k">>, <<"a">>, <<"b">>>>, <<>> >>, box |-> 1],
    [root |-> TRUE, xmlns |-> TRUE,
     attrs |-> ("id" :> <<"o", "w", "n">>) @@ ("viewBox" :> <<"0", " ", "0", " ", "8", " ", "8">>),
     classList |-> <<<<"a">>>>,
     sheets |-> << [parent |-> "svg",
                    cssRules |-> << Rule(<<".", "a">>, <<Decl("fill", "green")>>) >>],
                   [parent |-> "defs",
                    cssRules |-> << Rule(<<".", "a">>, <<Decl("fill", "black")>>) >>] >>,
     elems |-> << <<<<"a">>>> >>, box |-> 2],
    [root |-> TRUE, xmlns |-> TRUE,
     attrs |-> ("height" :> <<>>) @@ ("width" :> <<"5", "0">>),
     classList |-> <<ImgFluid>>, sheets |-> <<>>, elems |-> << <<<<"a">>>> >>, box |-> 2],
    \* a descendant selector, .i p, on <g class="i p"><path class="b"/></g>
    [root |-> TRUE, xmlns |-> TRUE, attrs |-> <<>>, classList |-> <<>>,
     sheets |-> << [parent |-> "svg",
                    cssRules |-> << Rule(<<".", "i", " ", "p">>, <<Decl("fill", "red")>>),
                                    Rule(<<".", "b">>, <<Decl("fill", "none")>>) >>] >>,
     elems |-> << <<<<"i">>, <<"p">>>>, <<<<"b">>>> >>, box |-> 1],
    \* an at-rule before a style rule
    [root |-> TRUE, xmlns |-> TRUE, attrs |-> <<>>, classList |-> <<>>,
     sheets |-> << [parent |-> "svg",
                    cssRules |-> << AtRule("font-face"),
                                    Rule(<<".", "a">>, <<Decl("fill", "red")>>) >>] >>,
     elems |-> << <<<<"a">>>> >>, box |-> 2],
    \* <svg> without the SVG namespace
    [root |-> TRUE, xmlns |-> FALSE, attrs |-> <<>>, classList |-> <<>>,
     sheets |-> <<>>, elems |-> <<>>, box |-> 1]
>>

\* body.childNodes of the page as loaded
InitialChildren == <<Img(1), Div(1), Img(2), Img(3)>>

VARIABLES
    imgs,        \* the placeholder elements: attributes by node ref
    children,    \* body.childNodes, in order
    svgs,        \* the inline svg roots in the document: attrs, classList, display,
                 \* svgElement (in the SVG namespace)
    styleSheets, \* document.styleSheets: parent of the owner node, cssRules
    elems,       \* the other elements of the document: enclosing root, classList
    fetches,     \* the arguments of the fetch calls, in call order
    conv,        \* one record per convertSVGtoInline call
    unhandled,   \* the unhandled promise rejections reported by the platform
    now          \* Date.now()

vars == <<imgs, children, svgs, styleSheets, elems, fetches, conv, unhandled, now>>

Init ==
    /\ imgs = Placeholders
    /\ children = InitialChildren
    /\ svgs = <<>>
    /\ styleSheets = << [parent |-> HeadNode,
                         cssRules |-> << Rule(<<".", "a">>, <<Decl("fill", "red")>>) >>] >>
    /\ elems = << [within |-> BodyNode, classList |-> <<<<"a">>, <<"x">>>>] >>
    /\ fetches = <<>>
    /\ conv = <<>>
    /\ unhandled = <<>>
    /\ now = StartTime

\* ------------------------------------------------------- the source's code
\* The functions work on a document record d:
\*   children, svgs, styleSheets, elems  as the variables of the same names,
\*   xmlDoc   the style elements and elements of a parsed document whose root
\*            is not yet part of the host document,
\*   trace    the calls entered so far by the running callback, each with
\*            the root as the call left it, by returning or by throwing,
\*   error    the exception that ended the callback, "" while it runs: a
\*            function given a document with an error is never entered.

Log(d, op, svgInline) ==
    [d EXCEPT !.trace = Append(@, [op |-> op, node |-> d.svgs[svgInline]])]

Throw(d, error) == [d EXCEPT !.error = error]

\* F applied to the value of x: one statement after another, x evaluated once
Then(x, F(_)) == CHOOSE r \in {F(v) : v \in {x}} : TRUE

\* parser.parseFromString(text, 'image/svg+xml') and
\* xmlDoc.getElementsByTagName('svg')[0], for a text that has an svg root
ParseFromString(d, text, c) ==
    [d EXCEPT
        !.svgs = (Svg(c) :> [attrs |-> text.attrs, classList |-> text.classList,
                             display |-> "", svgElement |-> text.xmlns]) @@ @,
        !.xmlDoc = [sheets |-> [k \in 1..Len(text.sheets) |->
                                  [parent |-> IF text.sheets[k].parent = "svg"
                                              THEN Svg(c) ELSE Defs(c),
                                   cssRules |-> text.sheets[k].cssRules]],
                    elems |-> [k \in 1..Len(text.elems) |->
                                  [within |-> Svg(c), classList |-> text.elems[k]]]]]

\* variant: the conventional order, width before height
setViewportWidthFirst(attrs) ==
    IF ~AttrTruthy(attrs, "viewBox") /\ AttrTruthy(attrs, "height")
                                      /\ AttrTruthy(attrs, "width")
    THEN SetAttribute(attrs, "viewBox",
                      <<"0", " ", "0", " ">> \o attrs["width"] \o <<" ">> \o attrs["height"])
    ELSE attrs

setViewport(attrs) ==
    IF ~AttrTruthy(attrs, "viewBox") /\ AttrTruthy(attrs, "height")
                                      /\ AttrTruthy(attrs, "width")
    THEN SetAttribute(attrs, "viewBox",
                      <<"0", " ", "0", " ">> \o attrs["height"] \o <<" ">> \o attrs["width"])
    ELSE attrs

optimizeInlineSVG(d, svgInline) ==
    IF d.error # "" THEN d
    ELSE
        LET node == d.svgs[svgInline]
            imgID == IdProperty(node.attrs)
            imgClass == ClassNameProperty(node.classList)
            a1 == IF IsDefined(imgID) THEN SetAttribute(node.attrs, "id", imgID.v)
                  ELSE node.attrs
            c1 == IF IsDefined(imgClass) THEN ClassListAdd(node.classList, ReplacedSvg)
                  ELSE node.classList
            c2 == ClassListAdd(c1, ImgFluid)
            a2 == RemoveAttribute(a1, "xmlns:a")
            a3 == setViewport(a2)
        IN  Log([d EXCEPT !.svgs[svgInline] = [node EXCEPT !.attrs = a3, !.classList = c2]],
                "optimizeInlineSVG", svgInline)

\* svgSource.parentNode: the body, or null for a detached node
HasParent(d, node) == InSeq(node, d.children)

\* variant: removeChild(svgSource) and appendChild(svgInline)
replaceChildAtEnd(d, svgInline, svgSource) ==
    Log([d EXCEPT
            !.children = Append(SelectSeq(@, LAMBDA n : n # svgSource), svgInline),
            !.styleSheets = @ \o d.xmlDoc.sheets,
            !.elems = @ \o d.xmlDoc.elems,
            !.xmlDoc = [sheets |-> <<>>, elems |-> <<>>]],
        "replaceChild", svgInline)

\* svgSource.parentNode.replaceChild(svgInline, svgSource), for an svgSource
\* with a parent; the style elements and elements under svgInline join the
\* document with it
replaceChild(d, svgInline, svgSource) ==
    Log([d EXCEPT
            !.children = [i \in 1..Len(@) |-> IF @[i] = svgSource THEN svgInline ELSE @[i]],
            !.styleSheets = @ \o d.xmlDoc.sheets,
            !.elems = @ \o d.xmlDoc.elems,
            !.xmlDoc = [sheets |-> <<>>, elems |-> <<>>]],
        "replaceChild", svgInline)

\* svgInline.getBBox is not a function on an element outside the SVG
\* namespace
removeSVGWhiteSpace(d, svgInline, bbox) ==
    IF d.error # "" THEN d
    ELSE IF ~d.svgs[svgInline].svgElement
    THEN Log(Throw(d, "TypeError"), "removeSVGWhiteSpace", svgInline)
    ELSE
        LET viewBox == Join(<<NumberToString(bbox.x), NumberToString(bbox.y),
                              NumberToString(bbox.width), NumberToString(bbox.height)>>,
                            <<" ">>)
        IN  Log([d EXCEPT !.svgs[svgInline].attrs = SetAttribute(@, "viewBox", viewBox)],
                "removeSVGWhiteSpace", svgInline)

\* the elements among candidates that carry every token of names; none when
\* names has no token
WithAllClasses(d, candidates, names) ==
    LET tokens == SplitOnWhitespace(names)
    IN  {k \in candidates :
            /\ tokens # <<>>
            /\ \A t \in 1..Len(tokens) : InSeq(tokens[t], d.elems[k].classList)}

\* variant: document.getElementsByClassName
getElementsByClassNameInDocument(d, svgInline, names) ==
    WithAllClasses(d, 1..Len(d.elems), names)

\* svgInline.getElementsByClassName(names): the elements inside svgInline
\* (not svgInline itself) that carry all the classes named
getElementsByClassName(d, svgInline, names) ==
    WithAllClasses(d, {k \in 1..Len(d.elems) : d.elems[k].within = svgInline}, names)

\* lines 68-74: one rule of the new style text per declared property
RECURSIVE AppendDeclarations(_, _, _)
AppendDeclarations(innerHTML, newElementClass, style) ==
    IF style = <<>> THEN innerHTML
    ELSE AppendDeclarations(
            Append(innerHTML, Rule(<<".">> \o newElementClass, <<Head(style)>>)),
            newElementClass, Tail(style))

Max(S) == CHOOSE m \in S : \A n \in S : n <= m

\* lines 77-83: the elements found, from the last to the first; the loop
\* ends at the first classList.replace that throws
RECURSIVE ReplaceInElements(_, _, _, _)
ReplaceInElements(d, elements, oldElementClass, newElementClass) ==
    IF elements = {} THEN d
    ELSE
        LET m == Max(elements)
            r == ClassListReplace(d.elems[m].classList, oldElementClass, newElementClass)
        IN  IF r.threw # "" THEN Throw(d, r.threw)
            ELSE Then([d EXCEPT !.elems[m].classList = r.classList],
                      LAMBDA x : ReplaceInElements(x, elements \ {m},
                                                   oldElementClass, newElementClass))

\* lines 61-84: the rules of one stylesheet of svgInline, from rule i on;
\* k is the stylesheet's place in document.styleSheets.  selectorText is
\* undefined on a rule that is not a style rule, and substring throws.
RECURSIVE RewriteRules(_, _, _, _, _, _)
RewriteRules(d, svgInline, uid, k, svgStyleRules, i) ==
    IF d.error # "" \/ i > Len(svgStyleRules) THEN d
    ELSE IF svgStyleRules[i].type # "style" THEN Throw(d, "TypeError")
    ELSE
        LET oldElementClass == Substring1(svgStyleRules[i].selectorText)
            newElementClass == uid \o <<"-">> \o oldElementClass
            elements == getElementsByClassName(d, svgInline, oldElementClass)
            d1 == [d EXCEPT
                     !.styleSheets[k].cssRules =
                         AppendDeclarations(@, newElementClass, svgStyleRules[i].style)]
        IN  Then(Then(d1, LAMBDA x : ReplaceInElements(x, elements, oldElementClass,
                                                       newElementClass)),
                 LAMBDA x : RewriteRules(x, svgInline, uid, k, svgStyleRules, i + 1))

\* lines 49-86: the stylesheets of the page from the k-th on
RECURSIVE ForEachSheet(_, _, _, _)
ForEachSheet(d, svgInline, uid, k) ==
    IF d.error # "" \/ k > Len(d.styleSheets) THEN d
    ELSE IF svgInline = d.styleSheets[k].parent
    THEN Then(Then([d EXCEPT !.styleSheets[k].cssRules = <<>>],
                   LAMBDA x : RewriteRules(x, svgInline, uid, k, d.styleSheets[k].cssRules, 1)),
              LAMBDA x : ForEachSheet(x, svgInline, uid, k + 1))
    ELSE ForEachSheet(d, svgInline, uid, k + 1)

svgPrependClassIdentifiers(d, svgInline, dateNow) ==
    IF d.error # "" THEN d
    ELSE
        LET uid == StripLeadingDigits(UidStem \o NumberToString(dateNow))
        IN  Then(ForEachSheet(d, svgInline, uid, 1),
                 LAMBDA x : Log(x, "svgPrependClassIdentifiers", svgInline))

\* svgInline.style is undefined on an element outside the SVG namespace
safariHack(d, svgInline) ==
    IF d.error # "" THEN d
    ELSE IF ~d.svgs[svgInline].svgElement
    THEN Log(Throw(d, "TypeError"), "safariHack", svgInline)
    ELSE Log([d EXCEPT !.svgs[svgInline].display = "flex"], "safariHack", svgInline)

\* variant: styles are namespaced before the bounding box is taken
processNamespaceBeforeBounds(d, svgInline, bbox, dateNow) ==
    Then(Then(Then(Then(d,
        LAMBDA x : optimizeInlineSVG(x, svgInline)),
        LAMBDA x : svgPrependClassIdentifiers(x, svgInline, dateNow)),
        LAMBDA x : removeSVGWhiteSpace(x, svgInline, bbox)),
        LAMBDA x : safariHack(x, svgInline))

processFeaturedMerchantsImages(d, svgInline, bbox, dateNow) ==
    Then(Then(Then(Then(d,
        LAMBDA x : optimizeInlineSVG(x, svgInline)),
        LAMBDA x : removeSVGWhiteSpace(x, svgInline, bbox)),
        LAMBDA x : svgPrependClassIdentifiers(x, svgInline, dateNow)),
        LAMBDA x : safariHack(x, svgInline))

\* lines 167-182, the callback of the second then: the document it leaves,
\* with the exception that ended it in error.  A text without an svg root
\* makes svgInline undefined and optimizeInlineSVG throws on svgInline.id; a
\* detached svgSource makes svgSource.parentNode null and the call of
\* replaceChild throws; after the replacement an exception leaves the
\* document as it was when thrown.
ThenCallback(d, svgSource, text, c, bbox, dateNow) ==
    IF ~text.root THEN Throw(d, "TypeError")
    ELSE
        LET svgInline == Svg(c)
        IN  Then(Then(ParseFromString(d, text, c),
                      LAMBDA x : optimizeInlineSVG(x, svgInline)),
                 LAMBDA d1 :
                    IF ~HasParent(d1, svgSource)
                    THEN Throw([d EXCEPT !.trace = d1.trace], "TypeError")
                    ELSE Then(replaceChild(d1, svgInline, svgSource),
                              LAMBDA x : processFeaturedMerchantsImages(
                                            x, svgInline, bbox, dateNow)))

\* variant: a handler reports the rejection and rethrows it
RejectAndRethrow(reports, c, error) ==
    Append(Append(reports, [conv |-> c, error |-> error]), [conv |-> c, error |-> error])

\* A rejection that reaches the end of the promise chain of conversion c:
\* the chain has no catch, the platform reports it once.
Reject(reports, c, error) == Append(reports, [conv |-> c, error |-> error])

\* ------------------------------------------------------------------ actions

Called(trace, op) == \E k \in 1..Len(trace) : trace[k].op = op

\* lines 158-162: the call convertSVGtoInline(svgSource), up to the fetch
convertSVGtoInline(svgSource) ==
    /\ Len(conv) < MaxConv
    /\ LET imgURL == Or(imgs[svgSource].svgSrc, imgs[svgSource].src)
       IN  /\ fetches' = Append(fetches, imgURL)
           /\ conv' = Append(conv, [svgSource |-> svgSource, outcome |-> "pending",
                                    text |-> 0, bbox |-> 0, time |-> 0, trace |-> <<>>])
    /\ UNCHANGED <<imgs, children, svgs, styleSheets, elems, unhandled, now>>

\* the fetch of conversion c is rejected, or response.text() is: the
\* callbacks still to come do not run
FetchRejected(c) ==
    /\ conv[c].outcome \in {"pending", "reading"}
    /\ conv' = [conv EXCEPT ![c].outcome = "rejected"]
    /\ unhandled' = Reject(unhandled, c, "FetchError")
    /\ UNCHANGED <<imgs, children, svgs, styleSheets, elems, fetches, now>>

\* lines 163-166: the fetch of conversion c resolves and the first callback
\* returns response.text()
FetchResolved(c) ==
    /\ conv[c].outcome = "pending"
    /\ conv' = [conv EXCEPT ![c].outcome = "reading"]
    /\ UNCHANGED <<imgs, children, svgs, styleSheets, elems, fetches, unhandled, now>>

\* lines 167-182: response.text() of conversion c resolves with the text
\* Markups[t] and the second callback runs; getBBox() returns the rectangle
\* of that graphic.
\* conv[c] keeps what the callback was given: the text, and the rectangle
\* and the time if it got as far as reading them.
TextResolved(c, t) ==
    /\ conv[c].outcome = "reading"
    /\ \E d \in {ThenCallback([children |-> children, svgs |-> svgs,
                               styleSheets |-> styleSheets, elems |-> elems,
                               xmlDoc |-> [sheets |-> <<>>, elems |-> <<>>],
                               trace |-> <<>>, error |-> ""],
                              conv[c].svgSource, Markups[t], c,
                              BBoxes[Markups[t].box], now)} :
           /\ children' = d.children
           /\ svgs' = d.svgs
           /\ styleSheets' = d.styleSheets
           /\ elems' = d.elems
           /\ conv' = [conv EXCEPT
                 ![c].outcome = IF d.error # "" THEN "threw" ELSE "done",
                 ![c].text = t,
                 ![c].bbox = IF Called(d.trace, "removeSVGWhiteSpace") /\ Markups[t].xmlns
                             THEN Markups[t].box ELSE 0,
                 ![c].time = IF Called(d.trace, "svgPrependClassIdentifiers")
                             THEN now ELSE 0,
                 ![c].trace = d.trace]
           /\ unhandled' = IF d.error # "" THEN Reject(unhandled, c, d.error)
                           ELSE unhandled
    /\ UNCHANGED <<imgs, fetches, now>>

\* a millisecond passes
Tick ==
    /\ now < StartTime + MaxTicks
    /\ now' = now + 1
    /\ UNCHANGED <<imgs, children, svgs, styleSheets, elems, fetches, conv, unhandled>>

Next ==
    \/ \E svgSource \in DOMAIN imgs : convertSVGtoInline(svgSource)
    \/ \E c \in 1..Len(conv) : FetchRejected(c)
    \/ \E c \in 1..Len(conv) : FetchResolved(c)
    \/ \E c \in 1..Len(conv), t \in 1..Len(Markups) : TextResolved(c, t)
    \/ Tick

Spec == Init /\ [][Next]_vars

TypeOK ==
    /\ Len(conv) <= MaxConv
    /\ Len(fetches) = Len(conv)
    /\ now \in StartTime..(StartTime + MaxTicks)

\* ------------------------------------------------------------ properties

Convs == 1..Len(conv)
Done(c) == conv[c].outcome = "done"
TextOf(c) == Markups[conv[c].text]
SourceOf(c) == conv[c].svgSource
RootOf(c) == svgs[Svg(c)]
Ops(trace) == [k \in 1..Len(trace) |-> trace[k].op]
Positions(seq, x) == {i \in 1..Len(seq) : seq[i] = x}

\* the callback of conversion c got as far as replacing the placeholder
Replaced(c) == Called(conv[c].trace, "replaceChild")

\* the stylesheets and the elements of the graphic of conversion c, in
\* document order
OwnSheets(c) == SelectSeq(styleSheets, LAMBDA sh : sh.parent = Svg(c))
OwnElems(c) == SelectSeq(elems, LAMBDA e : e.within = Svg(c))
DirectSheets(text) == SelectSeq(text.sheets, LAMBDA sh : sh.parent = "svg")

RulesOf(sheets) ==
    UNION {{sheets[k].cssRules[i] : i \in 1..Len(sheets[k].cssRules)} : k \in 1..Len(sheets)}
SelectorsOf(sheets) == {r.selectorText : r \in RulesOf(sheets)}
ClassesOf(es) ==
    UNION {{es[k].classList[j] : j \in 1..Len(es[k].classList)} : k \in 1..Len(es)}

\* the prefixes a conversion can generate within the modelled time
Prefixes == {UidStem \o NumberToString(t) : t \in StartTime..(StartTime + MaxTicks)}

\* C1: a placeholder that is attached when the text arrives, a text with
\* an svg root, is replaced: the placeholder is no longer a child, the new
\* root is a child exactly once and at the placeholder's position (also
\* when a later step of the callback throws); a callback given an svg root
\* replaces nothing only if an earlier conversion had replaced the same
\* placeholder; and the child list is otherwise the one of the page as
\* loaded (placeholders replaced by their roots, nothing added, nothing
\* removed).
C1_ReplacedInPlace ==
    /\ \A c \in Convs :
          Done(c) => Replaced(c)
    /\ \A c \in Convs :
          Replaced(c) =>
             /\ ~InSeq(SourceOf(c), children)
             /\ Positions(children, Svg(c)) = Positions(InitialChildren, SourceOf(c))
             /\ Cardinality(Positions(children, Svg(c))) = 1
    /\ \A c \in Convs :
          (conv[c].outcome = "threw" /\ TextOf(c).root /\ ~Replaced(c)) =>
             \E c2 \in Convs \ {c} : Replaced(c2) /\ SourceOf(c2) = SourceOf(c)
    /\ Len(children) = Len(InitialChildren)
    /\ \A i \in 1..Len(children) :
          \/ children[i] = InitialChildren[i]
          \/ \E c \in Convs : /\ Replaced(c)
                              /\ children[i] = Svg(c)
                              /\ InitialChildren[i] = SourceOf(c)

C1_Witness ==
    \E c \in Convs : /\ Done(c)
                     /\ children[1] = Svg(c)
                     /\ SourceOf(c) = Img(1)

\* C2: a conversion whose fetch was rejected issued one fetch, inserted no
\* svg root, left the placeholder's attributes as they were and the
\* placeholder at its position (unless another conversion of the same
\* placeholder replaced it), and is reported exactly once, as a FetchError.
C2_FetchFailureLeavesPlaceholder ==
    /\ Len(fetches) = Len(conv)
    /\ \A c \in Convs :
          conv[c].outcome = "rejected" =>
             /\ imgs[SourceOf(c)] = Placeholders[SourceOf(c)]
             /\ Svg(c) \notin DOMAIN svgs
             /\ ~InSeq(Svg(c), children)
             /\ \/ Positions(children, SourceOf(c)) = Positions(InitialChildren, SourceOf(c))
                \/ \E c2 \in Convs \ {c} : Replaced(c2) /\ SourceOf(c2) = SourceOf(c)
             /\ Cardinality({k \in 1..Len(unhandled) : unhandled[k].conv = c}) = 1
             /\ \A k \in 1..Len(unhandled) :
                   unhandled[k].conv = c => unhandled[k].error = "FetchError"

C2_Witness ==
    \E c \in Convs : /\ conv[c].outcome = "rejected"
                     /\ InSeq(SourceOf(c), children)
                     /\ \E k \in 1..Len(unhandled) : unhandled[k].conv = c

\* a text whose own style block has a rule for the class a
DefinesA(text) == <<".", "a">> \in SelectorsOf(DirectSheets(text))

\* C3: two converted graphics whose sources both define a rule for .a share
\* no namespaced selector, and no element of one carries a class named by a
\* selector of the other.
C3_NamespacedClassesDiffer ==
    \A c1 \in Convs, c2 \in Convs :
       (c1 # c2 /\ Done(c1) /\ Done(c2) /\ DefinesA(TextOf(c1)) /\ DefinesA(TextOf(c2))) =>
          /\ SelectorsOf(OwnSheets(c1)) \cap SelectorsOf(OwnSheets(c2)) = {}
          /\ \A cls \in ClassesOf(OwnElems(c1)) :
                (<<".">> \o cls) \notin SelectorsOf(OwnSheets(c2))

\* C4: on the root of a completed conversion img-fluid is present,
\* replaced-svg is present exactly when the placeholder had a class
\* attribute, the placeholder's class is not copied, and each marker class
\* appears once.
C4_MarkerClasses ==
    \A c \in Convs :
       Done(c) =>
          LET classList == RootOf(c).classList
              img == imgs[SourceOf(c)]
          IN  /\ InSeq(ImgFluid, classList)
              /\ InSeq(ReplacedSvg, classList) <=> IsDefined(img.className)
              /\ IsDefined(img.className) => ~InSeq(img.className.v, classList)
              /\ Cardinality(Positions(classList, ImgFluid)) <= 1
              /\ Cardinality(Positions(classList, ReplacedSvg)) <= 1

\* C5: the root of a completed conversion has the placeholder's id when the
\* placeholder has one defined (an empty one included); otherwise the
\* conversion sets no id: the root has an id attribute only if the fetched
\* markup declared one, with that value.
C5_IdCarriedOver ==
    \A c \in Convs :
       Done(c) =>
          LET attrs == RootOf(c).attrs
              img == imgs[SourceOf(c)]
          IN  IF IsDefined(img.id)
              THEN "id" \in DOMAIN attrs /\ attrs["id"] = img.id.v
              ELSE /\ "id" \in DOMAIN attrs <=> "id" \in DOMAIN TextOf(c).attrs
                   /\ "id" \in DOMAIN attrs => attrs["id"] = TextOf(c).attrs["id"]

\* the text of a rectangle as x y width height
BoxText(bbox) ==
    NumberToString(bbox.x) \o <<" ">> \o NumberToString(bbox.y) \o <<" ">>
        \o NumberToString(bbox.width) \o <<" ">> \o NumberToString(bbox.height)

\* the calls of a trace made before the bounding box was written
BeforeTrim(trace) ==
    {k \in 1..Len(trace) : \A j \in 1..k : trace[j].op # "removeSVGWhiteSpace"}

\* C6: for a completed conversion whose source root declares a (non-empty)
\* height h and width w and no viewBox, the root's viewBox is "0 0 h w" after
\* every call from the first optimizeInlineSVG up to removeSVGWhiteSpace; and
\* for every completed conversion the bounding box was written and the
\* viewBox of the root is the text "x y width height" of the rectangle
\* getBBox() returned, also where that differs from the earlier value.
C6_ViewBox ==
    \A c \in Convs :
       Done(c) =>
          LET src == TextOf(c).attrs
              trace == conv[c].trace
          IN  /\ (AttrTruthy(src, "height") /\ AttrTruthy(src, "width")
                     /\ "viewBox" \notin DOMAIN src) =>
                    /\ BeforeTrim(trace) # {}
                    /\ \A k \in BeforeTrim(trace) :
                          /\ "viewBox" \in DOMAIN trace[k].node.attrs
                          /\ trace[k].node.attrs["viewBox"] =
                                <<"0", " ", "0", " ">> \o src["height"] \o <<" ">> \o src["width"]
              /\ \E k \in 1..Len(trace) : trace[k].op = "removeSVGWhiteSpace"
              /\ "viewBox" \in DOMAIN RootOf(c).attrs
              /\ RootOf(c).attrs["viewBox"] = BoxText(BBoxes[conv[c].bbox])

\* height="100" width="50", no viewBox, bounding box 0 0 50 100: the viewBox
\* was "0 0 100 50" and ends as "0 0 50 100"
C6_Witness ==
    \E c \in Convs :
       /\ Done(c)
       /\ "viewBox" \notin DOMAIN TextOf(c).attrs
       /\ AttrTruthy(TextOf(c).attrs, "height")
       /\ conv[c].trace[1].node.attrs["viewBox"] =
             <<"0", " ", "0", " ", "1", "0", "0", " ", "5", "0">>
       /\ RootOf(c).attrs["viewBox"] = <<"0", " ", "0", " ", "5", "0", " ", "1", "0", "0">>

\* C7: a placeholder without a usable URL starts no fetch, stays in the
\* document and causes no report.
C7_NoUrlNoConversion ==
    /\ \A k \in 1..Len(fetches) : Truthy(fetches[k])
    /\ \A c \in Convs :
          ~Truthy(Or(imgs[SourceOf(c)].svgSrc, imgs[SourceOf(c)].src)) =>
             /\ conv[c].outcome \notin {"done", "threw", "rejected"}
             /\ InSeq(SourceOf(c), children)
             /\ \A k \in 1..Len(unhandled) : unhandled[k].conv # c

\* C8 as stated: one optimization pass, the splice, namespacing, the
\* bounding box, the repaint; nothing is optimized after the splice.
C8_OrderAsStated ==
    \A c \in Convs :
       Done(c) =>
          Ops(conv[c].trace) = <<"optimizeInlineSVG", "replaceChild",
                                 "svgPrependClassIdentifiers", "removeSVGWhiteSpace",
                                 "safariHack">>

\* C8 amended: a completed conversion made exactly these calls in this
\* order: optimizeInlineSVG, the splice, optimizeInlineSVG again,
\* removeSVGWhiteSpace (the bounding box), svgPrependClassIdentifiers (the
\* namespacing), safariHack; the second optimization left the root as the
\* first made it, the bounding box was written before any selector was
\* namespaced, and the root is in the document once.
C8_OrderOfSteps ==
    \A c \in Convs :
       Done(c) =>
          LET trace == conv[c].trace
          IN  /\ Ops(trace) = <<"optimizeInlineSVG", "replaceChild", "optimizeInlineSVG",
                                "removeSVGWhiteSpace", "svgPrependClassIdentifiers",
                                "safariHack">>
              /\ trace[3].node = trace[1].node
              /\ trace[4].node.attrs["viewBox"] = BoxText(BBoxes[conv[c].bbox])
              /\ trace[6].node = RootOf(c)
              /\ RootOf(c).display = "flex"
              /\ Cardinality(Positions(children, Svg(c))) = 1

\* a completed conversion of a graphic with a style block and a synthesized
\* viewBox
C8_Witness ==
    \E c \in Convs :
       /\ Done(c)
       /\ DefinesA(TextOf(c))
       /\ "xmlns:a" \in DOMAIN TextOf(c).attrs
       /\ conv[c].trace[1].node.attrs["viewBox"] # RootOf(c).attrs["viewBox"]

\* a selector that is a dot and one class name
SingleClass(sel) ==
    /\ Len(sel) > Len(<<".">>)
    /\ Head(sel) = "."
    /\ \A i \in DOMAIN Tail(sel) : Tail(sel)[i] \notin Whitespace \cup {".", ",", ">", "+", "~", ":", "["}

\* a text whose own style blocks hold style rules with single-class
\* selectors only
SingleClassRules(text) ==
    \A r \in RulesOf(DirectSheets(text)) : r.type = "style" /\ SingleClass(r.selectorText)

\* C9: for a conversion that ran svgPrependClassIdentifiers on a root whose
\* own style blocks hold single-class rules, there is a prefix such that, for every
\* rule .cls of each style block that is a direct child of the source root
\* and every declaration of it, the block in the document holds a rule
\* .prefix-cls with that declaration; the block holds no rule under an
\* original selector; and every element inside the root that carried cls
\* carries prefix-cls and not cls.  Rules that match no element are
\* rewritten like the others.
C9_RulesAndClassesPrefixed ==
    \A c \in Convs :
       (Called(conv[c].trace, "svgPrependClassIdentifiers")
           /\ SingleClassRules(TextOf(c))) =>
          LET orig == DirectSheets(TextOf(c))
              own == OwnSheets(c)
              es == OwnElems(c)
          IN  /\ Len(own) = Len(orig)
              /\ Len(es) = Len(TextOf(c).elems)
              /\ \E prefix \in Prefixes :
                    \A k \in 1..Len(orig) :
                       \A i \in 1..Len(orig[k].cssRules) :
                          LET cls == Substring1(orig[k].cssRules[i].selectorText)
                              new == prefix \o <<"-">> \o cls
                          IN  /\ \A m \in 1..Len(orig[k].cssRules[i].style) :
                                    Rule(<<".">> \o new, <<orig[k].cssRules[i].style[m]>>)
                                       \in RulesOf(<<own[k]>>)
                              /\ \A j \in 1..Len(es) :
                                    InSeq(cls, TextOf(c).elems[j]) =>
                                       /\ InSeq(new, es[j].classList)
                                       /\ ~InSeq(cls, es[j].classList)
              /\ SelectorsOf(own) \cap SelectorsOf(orig) = {}

\* a completed conversion of the graphic whose rule .c matches no element
\* and whose rule .a matches two
C9_Witness ==
    \E c \in Convs :
       /\ Done(c)
       /\ <<".", "c">> \in SelectorsOf(DirectSheets(TextOf(c)))
       /\ \A j \in 1..Len(TextOf(c).elems) : ~InSeq(<<"c">>, TextOf(c).elems[j])
       /\ \E j \in 1..Len(TextOf(c).elems) : InSeq(<<"a">>, TextOf(c).elems[j])
       /\ SelectorsOf(OwnSheets(c)) # {}

\* C10: a step of a conversion, to its end or to an exception, changes no
\* stylesheet, element or root that was in the document before it, and the
\* stylesheets it brings in that are not owned by a direct child of its
\* root keep the rules of the source.
C10_Step ==
    /\ \A k \in 1..Len(styleSheets) :
          k <= Len(styleSheets') /\ styleSheets'[k] = styleSheets[k]
    /\ \A k \in 1..Len(elems) : k <= Len(elems') /\ elems'[k] = elems[k]
    /\ \A r \in DOMAIN svgs : r \in DOMAIN svgs' /\ svgs'[r] = svgs[r]
    /\ imgs' = imgs
    /\ \A c \in Convs :
          (~Replaced(c) /\ Called(conv'[c].trace, "replaceChild")) =>
             LET text == Markups[conv'[c].text]
             IN  /\ Len(styleSheets') = Len(styleSheets) + Len(text.sheets)
                 /\ \A k \in 1..Len(text.sheets) :
                       text.sheets[k].parent # "svg" =>
                          styleSheets'[Len(styleSheets) + k].cssRules = text.sheets[k].cssRules

C10_WritesOnlyOwnRoot == [][C10_Step]_vars

\* two graphics converted one after the other, both from sources with class
\* a, on a page that has an element with class a and a rule for .a
C10_Witness ==
    \E c1 \in Convs, c2 \in Convs :
       /\ c1 # c2
       /\ Done(c1) /\ Done(c2)
       /\ DefinesA(TextOf(c1)) /\ DefinesA(TextOf(c2))
       /\ \E k \in 1..Len(styleSheets) : styleSheets[k].parent = Defs(c1)
       /\ InSeq(<<"a">>, elems[1].classList)

====
